---- MODULE Spec2Model ----
(***************************************************************************)
(* Model of the light/dark theme toggle (theme.js, scripts/theme.js) and   *)
(* of the blog-file naming rule of the Makefile's initialize_blog target.  *)
(*                                                                         *)
(* Theme toggle: every loaded page (browser tab) of the site runs the same *)
(* script against the one localStorage of the origin.  localStorage, the   *)
(* OS colour-scheme preference and the user's clicks are the environment.  *)
(* theme.js and scripts/theme.js differ only in how the icon is drawn      *)
(* (SVG markup vs. an emoji glyph); "sun" and "moon" stand for both.       *)
(***************************************************************************)
EXTENDS Integers, Sequences, FiniteSets, TLC

(* ------------------------------ bounds -------------------------------- *)

\* Number of pages (tabs) of the site open on the same browser storage.
NumPages == 2

\* Longest TOPIC, in characters, given to `make initialize_blog`.
MaxTopicLen == 3

Pages == 1..NumPages

(* ----------------------------- vocabulary ----------------------------- *)

\* localStorage.getItem returns null when the key is absent.
NoItem == "<null>"

\* data-theme attribute / icon of a page whose script has not run yet.
NoAttr == "<unset>"
NoIcon == "<empty>"

Themes == {"light", "dark"}

\* What localStorage may hold under 'theme' when a page is opened: nothing,
\* a value the script wrote earlier, or any other string (storage is shared
\* by everything served from the origin and editable by the user).
StorageContents == {NoItem, "", "light", "dark", "sepia"}

\* Event kinds recorded in the history variables.
NoEvent == [op |-> "none", page |-> 0, before |-> NoAttr]

VARIABLES
  storage,    \* localStorage['theme'], shared by all pages
  osDark,     \* window.matchMedia('(prefers-color-scheme: dark)').matches
  loaded,     \* loaded[p]: the script has run on page p
  dataTheme,  \* dataTheme[p]: documentElement's data-theme attribute
  icon,       \* icon[p]: content of the .theme-toggle element
  clicked,    \* history: clicked[p] iff p's toggle was clicked since p was first loaded
  threw,      \* history: some localStorage.setItem call has thrown
  last,       \* history: the most recent event
  prev,       \* history: the event before the most recent one
  topic,      \* make variable TOPIC
  blogFile    \* path of the file created by cp, <<>> before the target has run

vars == <<storage, osDark, loaded, dataTheme, icon, clicked, threw, last, prev,
          topic, blogFile>>

(* ------------------------------ theme.js ------------------------------ *)

\* JavaScript truthiness of the value returned by getItem: null and the
\* empty string are falsy, every other string is truthy.
Truthy(item) == item # NoItem /\ item # ""

\* Variant that consults the OS preference before the stored value.
currentTheme_osFirst(item, matches) ==
  IF matches THEN "dark" ELSE IF Truthy(item) THEN item ELSE "light"

\* const currentTheme = localStorage.getItem('theme') ||
\*                      (prefersDarkScheme.matches ? 'dark' : 'light');
currentTheme(item, matches) ==
  IF Truthy(item) THEN item ELSE IF matches THEN "dark" ELSE "light"

\* theme === 'dark' ? sunIcon : moonIcon
iconFor(theme) == IF theme = "dark" THEN "sun" ELSE "moon"

\* getAttribute('data-theme') === 'dark' ? 'light' : 'dark'
newTheme(attr) == IF attr = "dark" THEN "light" ELSE "dark"

Record(op, p) ==
  /\ last' = [op |-> op, page |-> p, before |-> dataTheme[p]]
  /\ prev' = last

\* Variant of the script body that also stores the resolved theme.
Load_persists(p) ==
  /\ loaded' = [loaded EXCEPT ![p] = TRUE]
  /\ dataTheme' = [dataTheme EXCEPT ![p] = currentTheme(storage, osDark)]
  /\ icon' = [icon EXCEPT ![p] = iconFor(currentTheme(storage, osDark))]
  /\ storage' = currentTheme(storage, osDark)
  /\ Record("load", p)
  /\ UNCHANGED <<osDark, clicked, threw, topic, blogFile>>

\* The script body, run when page p is loaded or reloaded.
Load(p) ==
  /\ loaded' = [loaded EXCEPT ![p] = TRUE]
  /\ dataTheme' = [dataTheme EXCEPT ![p] = currentTheme(storage, osDark)]
  /\ icon' = [icon EXCEPT ![p] = iconFor(currentTheme(storage, osDark))]
  /\ Record("load", p)
  /\ UNCHANGED <<storage, osDark, clicked, threw, topic, blogFile>>

\* Variants of the click listener: one that never calls setItem, one that
\* stores the theme it read instead of the new one.
Click_noPersist(p) ==
  /\ loaded[p]
  /\ dataTheme' = [dataTheme EXCEPT ![p] = newTheme(dataTheme[p])]
  /\ icon' = [icon EXCEPT ![p] = iconFor(newTheme(dataTheme[p]))]
  /\ Record("click", p)
  /\ clicked' = [clicked EXCEPT ![p] = TRUE]
  /\ UNCHANGED <<storage, threw, osDark, loaded, topic, blogFile>>

Click_storesOld(p) ==
  /\ loaded[p]
  /\ dataTheme' = [dataTheme EXCEPT ![p] = newTheme(dataTheme[p])]
  /\ storage' = dataTheme[p]
  /\ icon' = [icon EXCEPT ![p] = iconFor(newTheme(dataTheme[p]))]
  /\ Record("click", p)
  /\ clicked' = [clicked EXCEPT ![p] = TRUE]
  /\ UNCHANGED <<threw, osDark, loaded, topic, blogFile>>

\* The click listener of page p.  setItem may throw (QuotaExceededError:
\* storage full or disabled); the exception ends the handler after the
\* attribute was set and before the icon is replaced.
Click(p) ==
  /\ loaded[p]
  /\ dataTheme' = [dataTheme EXCEPT ![p] = newTheme(dataTheme[p])]
  /\ \E setItemThrows \in BOOLEAN :
       IF setItemThrows
       THEN /\ threw' = TRUE
            /\ Record("clickThrew", p)
            /\ UNCHANGED <<storage, icon>>
       ELSE /\ storage' = newTheme(dataTheme[p])
            /\ icon' = [icon EXCEPT ![p] = iconFor(newTheme(dataTheme[p]))]
            /\ Record("click", p)
            /\ UNCHANGED threw
  /\ clicked' = [clicked EXCEPT ![p] = TRUE]
  /\ UNCHANGED <<osDark, loaded, topic, blogFile>>

\* The user or the OS switches the colour-scheme preference.  The script
\* registers no listener on the media query, so nothing else changes.
OsChange ==
  /\ osDark' = ~osDark
  /\ last' = [op |-> "os", page |-> 0, before |-> NoAttr]
  /\ prev' = last
  /\ UNCHANGED <<storage, loaded, dataTheme, icon, clicked, threw, topic, blogFile>>

Init ==
  /\ storage \in StorageContents
  /\ osDark \in BOOLEAN
  /\ loaded = [p \in Pages |-> FALSE]
  /\ dataTheme = [p \in Pages |-> NoAttr]
  /\ icon = [p \in Pages |-> NoIcon]
  /\ clicked = [p \in Pages |-> FALSE]
  /\ threw = FALSE
  /\ last = NoEvent
  /\ prev = NoEvent
  /\ topic = <<>>
  /\ blogFile = <<>>

Next ==
  \/ \E p \in Pages : Load(p)
  \/ \E p \in Pages : Click(p)
  \/ OsChange

Spec == Init /\ [][Next]_vars

(* ------------------------------ Makefile ------------------------------ *)
(* initialize_blog: BLOG_FILENAME is computed from TOPIC by two tr calls,  *)
(* then `cp blog/template.html blog/$(BLOG_FILENAME).html` creates the     *)
(* post.  The two aider calls edit file contents only and are not part of  *)
(* the naming rule.  A string is a sequence of one-character strings.      *)

\* Characters a TOPIC is drawn from: lower-case letter, upper-case letter,
\* digit, space, hyphen and two punctuation marks.
Alphabet == {"a", "Q", "7", " ", "-", "!", "+"}

Topics == UNION {[1..n -> Alphabet] : n \in 0..MaxTopicLen}

\* tr '[:upper:]' '[:lower:]'
trLower(c) == IF c = "Q" THEN "q" ELSE c

\* tr ' ' '-'
trHyphen(c) == IF c = " " THEN "-" ELSE c

\* BLOG_FILENAME := $(shell echo "$(TOPIC)" | tr '[:upper:]' '[:lower:]' | tr ' ' '-')
BLOG_FILENAME(t) == [i \in 1..Len(t) |-> trHyphen(trLower(t[i]))]

\* blog/$(BLOG_FILENAME).html
BlogPath(name) == <<"blog/">> \o name \o <<".html">>

\* cp blog/template.html blog/$(BLOG_FILENAME).html
initialize_blog ==
  /\ blogFile = <<>>
  /\ blogFile' = BlogPath(BLOG_FILENAME(topic))
  /\ UNCHANGED <<storage, osDark, loaded, dataTheme, icon, clicked, threw,
                 last, prev, topic>>

InitBlog ==
  /\ storage = NoItem
  /\ osDark = FALSE
  /\ loaded = [p \in Pages |-> FALSE]
  /\ dataTheme = [p \in Pages |-> NoAttr]
  /\ icon = [p \in Pages |-> NoIcon]
  /\ clicked = [p \in Pages |-> FALSE]
  /\ threw = FALSE
  /\ last = NoEvent
  /\ prev = NoEvent
  /\ topic \in Topics
  /\ blogFile = <<>>

NextBlog == initialize_blog

SpecBlog == InitBlog /\ [][NextBlog]_vars

(* ============================== claims ================================ *)

IsClick(e) == e.op \in {"click", "clickThrew"}

\* C1: on load the theme is the persisted value when one of 'light'/'dark'
\* is persisted, whatever the OS preference; with nothing persisted it is
\* dark when the OS prefers dark and light otherwise.
ThemeResolvedInPriorityOrder ==
  last.op = "load" =>
    /\ storage \in Themes => dataTheme[last.page] = storage
    /\ (storage = NoItem /\ osDark) => dataTheme[last.page] = "dark"
    /\ (storage = NoItem /\ ~osDark) => dataTheme[last.page] = "light"

\* C1 witness: a load with 'light' persisted while the OS prefers dark.
PersistedBeatsOsPreference ==
  /\ last.op = "load"
  /\ storage = "light"
  /\ osDark
  /\ dataTheme[last.page] = "light"

\* C2 (as claimed): after every click the theme is flipped and data-theme,
\* icon and persisted value all agree on the new theme.
ClickFlipsAndAllAgree ==
  IsClick(last) =>
    /\ last.before = "dark" => dataTheme[last.page] = "light"
    /\ last.before = "light" => dataTheme[last.page] = "dark"
    /\ storage = dataTheme[last.page]
    /\ icon[last.page] = (IF dataTheme[last.page] = "dark" THEN "sun" ELSE "moon")

\* C3 (as claimed): two consecutive clicks on a page return its data-theme
\* attribute to the value it had before the first click.
TwoClicksRestoreTheme ==
  (IsClick(last) /\ IsClick(prev) /\ last.page = prev.page) =>
    dataTheme[last.page] = prev.before

\* C4 (as claimed): a reload applies the theme that was displayed
\* immediately before the reload, regardless of the OS preference.  Stated
\* for runs in which no storage write has failed.
ReloadKeepsDisplayedTheme ==
  (last.op = "load" /\ last.before # NoAttr /\ ~threw) =>
    dataTheme[last.page] = last.before

\* C4 (amended): a reload applies the theme displayed immediately before it,
\* regardless of the OS preference, when that theme is the persisted value;
\* in particular when the reload directly follows a click on the same page
\* whose storage write succeeded.
ReloadKeepsPersistedTheme ==
  /\ (last.op = "load" /\ Truthy(storage) /\ last.before = storage) =>
       dataTheme[last.page] = last.before
  /\ (last.op = "load" /\ prev.op = "click" /\ prev.page = last.page) =>
       dataTheme[last.page] = last.before

\* C4 witness: a reload right after a successful click that chose light,
\* while the OS prefers dark.
ReloadAfterClickAgainstOs ==
  /\ last.op = "load"
  /\ prev.op = "click"
  /\ prev.page = last.page
  /\ osDark
  /\ last.before = "light"
  /\ dataTheme[last.page] = "light"

\* C5 (as claimed, data-theme part): on every loaded page the data-theme
\* attribute is 'light' or 'dark'.
ThemeIsTwoValued ==
  \A p \in Pages : loaded[p] => dataTheme[p] \in Themes

\* C6: a load, a reload or a change of the OS preference leaves the value
\* stored under 'theme' unchanged; only a click step writes it.
OnlyClickWritesStorage ==
  [][last'.op \in {"load", "os"} => storage' = storage]_vars

\* C6 witness: a first load that defaulted to dark from the OS preference
\* and left the storage key absent.
DefaultedLoadLeavesStorageAbsent ==
  /\ last.op = "load"
  /\ last.before = NoAttr
  /\ storage = NoItem
  /\ dataTheme[last.page] = "dark"

\* C7 (as claimed): the persisted value always equals the theme displayed
\* by every loaded page that has been clicked.  Stated for runs in which no
\* storage write has failed.
PersistedEqualsEveryClickedPage ==
  ~threw => \A p \in Pages : (loaded[p] /\ clicked[p]) => dataTheme[p] = storage

\* C7 (amended): the stored value changes only in a click step, and right
\* after a click whose write succeeded it is the theme, light or dark, that
\* the clicked page displays.
WriteRecordsTheClickedPage ==
  /\ [](last.op = "click" => (storage = dataTheme[last.page] /\ storage \in Themes))
  /\ [][storage' # storage => last'.op = "click"]_vars

\* C7 witness: right after a successful click on one page, another loaded
\* and clicked page displays a theme other than the persisted one, with no
\* failed write in the run.
OtherClickedPageDisagrees ==
  /\ last.op = "click"
  /\ ~threw
  /\ storage = dataTheme[last.page]
  /\ \E q \in Pages \ {last.page} :
       loaded[q] /\ clicked[q] /\ dataTheme[q] # storage

\* Characters allowed in a URL-safe name: lower-case letters, digits, hyphen.
UrlSafe == {"a", "q", "7", "-"}

\* C8 (as claimed): the created file is blog/<name>.html where <name> is
\* TOPIC lower-cased with spaces replaced by hyphens, and <name> consists
\* only of lower-case letters, digits and hyphens.
BlogFileNameIsUrlSafe ==
  blogFile # <<>> =>
    /\ Len(blogFile) = Len(topic) + 2
    /\ blogFile[1] = "blog/"
    /\ blogFile[Len(blogFile)] = ".html"
    /\ \A i \in 1..Len(topic) :
         /\ blogFile[i + 1] = (IF topic[i] = " " THEN "-"
                               ELSE IF topic[i] = "Q" THEN "q" ELSE topic[i])
         /\ blogFile[i + 1] \in UrlSafe

\* C9 (as claimed): on every loaded page the toggle shows the sun icon if
\* and only if data-theme is 'dark', and the moon icon otherwise.
IconMatchesTheme ==
  \A p \in Pages :
    loaded[p] => icon[p] = (IF dataTheme[p] = "dark" THEN "sun" ELSE "moon")

\* C10 (as claimed): on a single page (no other page was ever loaded), from
\* the first click onward data-theme and the persisted value are equal and
\* both are 'light' or 'dark'.
SelfHealedAfterFirstClick ==
  (clicked[1] /\ \A q \in Pages \ {1} : ~loaded[q]) =>
    (dataTheme[1] = storage /\ storage \in Themes)

====
